---- MODULE Spec2Model ----
(***************************************************************************)
(* Model of the YouTube channel aggregation backend:                       *)
(*   - autochunk          (src/src/index.ts 262-314), the chunk planner    *)
(*   - getPlaylistVideos  (src/src/index.ts 82-116 and the handler file    *)
(*                         src/unnamed/part_002 71-91), the paginator      *)
(***************************************************************************)
EXTENDS Integers, Sequences, FiniteSets, TLC

VARIABLES
    \* ---- autochunk: arguments
    items,                  \* items: T[]
    otherParametersCount,   \* otherParametersCount: number
    \* ---- autochunk: locals
    pc,                     \* position of the async function
    idx,                    \* position of the for..of iterator over items
    chunks,                 \* const chunks: T[][]
    chunk,                  \* let chunk: T[]
    chunkParameters,        \* let chunkParameters
    execIdx,                \* position of the for..of iterator over chunks
    results,                \* const results: U[][]
    \* ---- autochunk: environment (the write callback and its backend)
    inflight,               \* batches handed to cb whose promise is pending
    cbCalls,                \* every batch handed to cb, in call order
    written,                \* batches the backend has committed, in order
    cbFailure,              \* the rejection of cb, when one happened
    \* ---- autochunk: completion
    outcome,                \* "pending" | "returned" | "threw"
    ret,                    \* the resolved value
    err,                    \* the rejection reason
    \* ---- getPlaylistVideos
    variant,                \* which of the two source versions runs
    pageSizes,              \* the upstream playlist: number of items per page
    endless,                \* the upstream returns a token on every page
    gpvPc,                  \* position of the async function
    videos,                 \* let videos: any[]
    nextPageToken,          \* let nextPageToken
    requests,               \* page tokens of the requests issued, in order
    pagesOk,                \* pages fetched and consumed successfully
    pageFailure,            \* the failure of a page request, when one happened
    gpvOutcome,             \* "pending" | "returned" | "threw"
    gpvRet,                 \* the resolved value
    gpvErr,                 \* the rejection reason
    \* ---- extractUsername
    exInput,                \* input: string
    exPc,                   \* "call" | "done"
    exResult,               \* string | null
    \* ---- GET / handler and the store
    db,                     \* the D1 tables: channels, videos, video_statistics
    req,                    \* per request: position and locals of the handler
    runs                    \* requests started so far

chunkVars == <<items, otherParametersCount, pc, idx, chunks, chunk,
               chunkParameters, execIdx, results, inflight, cbCalls, written,
               cbFailure, outcome, ret, err>>
gpvVars == <<variant, pageSizes, endless, gpvPc, videos, nextPageToken,
             requests, pagesOk, pageFailure, gpvOutcome, gpvRet, gpvErr>>
resolverVars == <<exInput, exPc, exResult>>
handlerVars == <<db, req, runs>>
nonChunkVars == <<gpvVars, resolverVars, handlerVars>>
nonGpvVars == <<chunkVars, resolverVars, handlerVars>>
nonResolverVars == <<chunkVars, gpvVars, handlerVars>>
nonHandlerVars == <<chunkVars, gpvVars, resolverVars>>
vars == <<chunkVars, gpvVars, resolverVars, handlerVars>>

----------------------------------------------------------------------------
(* Bounds of the model *)

MaxItems == 3

(* Key counts of the plain objects handed to autochunk.  0 is the empty   *)
(* object, 101 is the smallest oversized one.                             *)
KeyCounts == {0, 40, 60, 100, 101}

(* Values of otherParametersCount: the default, values next to which some *)
(* items do not fit, the ceiling itself, and the smallest rejected value. *)
OtherCounts == {0, 1, 50, 100, 101}

----------------------------------------------------------------------------
(* Errors: every throw in the source is a plain Error with a message *)

NoError == [name |-> "", message |-> ""]

MkError(msg) == [name |-> "Error", message |-> msg]

D1_MAX_PARAMETERS == 100

PrecheckError ==
    MkError("otherParametersCount cannot be more than "
            \o ToString(D1_MAX_PARAMETERS))

ItemTooLargeError(itemParameters) ==
    MkError("Item has too many parameters (" \o ToString(itemParameters) \o ")")

(* Rejections of the write callback (db.insert(...).returning()) *)
BackendErrors ==
    { MkError("D1_ERROR: UNIQUE constraint failed"),
      MkError("D1_ERROR: too many SQL variables") }

----------------------------------------------------------------------------
(* autochunk: pure helpers *)

(* An item is a scalar (string | number) or a plain object; id is its     *)
(* position in the input, which makes every item distinguishable.         *)
ItemShapes ==
    {[plain |-> FALSE, nkeys |-> 0]}
        \cup {[plain |-> TRUE, nkeys |-> n] : n \in KeyCounts}

MkItem(i, shape) == [id |-> i, plain |-> shape.plain, nkeys |-> shape.nkeys]

ItemSeqs ==
    UNION { { [i \in 1..n |-> MkItem(i, f[i])] : f \in [1..n -> ItemShapes] }
            : n \in 0..MaxItems }

(* isPlainObject(item) ? Object.keys(item).length : 1 *)
itemParametersOf(item) == IF item.plain THEN item.nkeys ELSE 1

(* the row the write callback returns for one item *)
RowOf(item) == [row |-> item.id]

(* cb(chunk) resolved: one row per item of the batch, in batch order *)
CbResult(batch) == [j \in 1..Len(batch) |-> RowOf(batch[j])]

(* the per-batch results joined last batch first *)
RECURSIVE flatReversed(_)
flatReversed(arrays) ==
    IF arrays = <<>> THEN <<>>
    ELSE flatReversed(Tail(arrays)) \o Head(arrays)

(* Array.prototype.flat() on an array of arrays *)
RECURSIVE flat(_)
flat(arrays) ==
    IF arrays = <<>> THEN <<>> ELSE Head(arrays) \o flat(Tail(arrays))

----------------------------------------------------------------------------
(* getPlaylistVideos: the upstream playlist and pure helpers *)

MaxPages == 3

(* Items per page: an empty page, a short last page, a full page of 50    *)
(* (maxResults=50).                                                        *)
PageSizeChoices == {0, 10, 50}

(* The two versions of getPlaylistVideos in the source *)
SourceVersions == {"index.ts", "part_002"}

Undefined == "<undefined>"

(* JavaScript truthiness of a string | undefined *)
Truthy(t) == t # Undefined /\ t # ""

Playlists ==
    UNION { [1..n -> PageSizeChoices] : n \in 1..MaxPages }

RECURSIVE Offset(_, _)
Offset(sizes, j) == IF j <= 1 THEN 0 ELSE sizes[j - 1] + Offset(sizes, j - 1)

(* continuation token that selects page j *)
TokenOf(j) == "PAGE" \o ToString(j)

(* item of a playlistItems payload *)
UpstreamItem(v) ==
    [snippet |-> [title |-> "title" \o ToString(v),
                  resourceId |-> [videoId |-> "vid" \o ToString(v)],
                  thumbnails |-> [high |-> [url |-> "thumb" \o ToString(v)]]]]

PageItems(sizes, j) ==
    [m \in 1..sizes[j] |-> UpstreamItem(Offset(sizes, j) + m)]

(* page selected by the pageToken parameter of a request *)
PageIndex(sizes, token) ==
    IF token = Undefined THEN 1
    ELSE CHOOSE j \in 1..Len(sizes) : TokenOf(j) = token

(* payload of the page request sent with pageToken = token *)
Response(sizes, token) ==
    LET j == PageIndex(sizes, token) IN
    [items |-> PageItems(sizes, j),
     nextPageToken |-> IF j < Len(sizes) THEN TokenOf(j + 1) ELSE Undefined]

(* payload of a page request against an upstream that may never stop     *)
(* handing out tokens: its last page then points back to the first page   *)
ResponseOf(sizes, token, unending) ==
    [Response(sizes, token) EXCEPT
        !.nextPageToken = IF unending /\ @ = Undefined THEN TokenOf(1) ELSE @]

(* nextPageToken ? `${url}&pageToken=${nextPageToken}` : url -- the       *)
(* pageToken parameter of apiUrl, Undefined when the url carries none     *)
ApiToken(token) == IF Truthy(token) THEN token ELSE Undefined

(* the record pushed for one payload item *)
VideoOf(item) ==
    [videoId |-> item.snippet.resourceId.videoId,
     videoTitle |-> item.snippet.title,
     thumbnailUrl |-> item.snippet.thumbnails.high.url]

(* while (nextPageToken) *)
MorePagesStopEarly(token) == FALSE

(* while (true) *)
MorePagesForever(token) == TRUE

MorePages(token) == Truthy(token)

NoFailure == [after |-> 0, kind |-> ""]

(* what a failed page request throws inside the function *)
FetchError(kind) ==
    IF kind = "reject" THEN [name |-> "TypeError", message |-> "fetch failed"]
    ELSE [name |-> "TypeError",
          message |-> "Cannot read properties of undefined (reading 'map')"]

----------------------------------------------------------------------------
(* autochunk: the async function, one action per synchronous stretch *)

(* string | null: a string is a sequence of one-character strings *)
Null == [isNull |-> TRUE, str |-> <<>>]

Str(chars) == [isNull |-> FALSE, str |-> chars]

resolverIdle ==
    /\ exInput = <<>>
    /\ exPc = "idle"
    /\ exResult = Null

(* the three tables, empty after the migration *)
EmptyDb == [channels |-> <<>>, videos |-> <<>>, stats |-> <<>>]

handlerIdle ==
    /\ db = EmptyDb
    /\ req = <<>>
    /\ runs = 0

gpvIdle ==
    /\ variant = "index.ts"
    /\ pageSizes = <<>>
    /\ endless = FALSE
    /\ gpvPc = "idle"
    /\ videos = <<>>
    /\ nextPageToken = Undefined
    /\ requests = <<>>
    /\ pagesOk = 0
    /\ pageFailure = NoFailure
    /\ gpvOutcome = "pending"
    /\ gpvRet = <<>>
    /\ gpvErr = NoError

NoCbFailure == [batch |-> 0, error |-> NoError]

(* the call autochunk(items, cb, otherParametersCount) *)
InitChunk ==
    /\ items \in ItemSeqs
    /\ otherParametersCount \in OtherCounts
    /\ pc = "start"
    /\ idx = 0
    /\ chunks = <<>>
    /\ chunk = <<>>
    /\ chunkParameters = 0
    /\ execIdx = 1
    /\ results = <<>>
    /\ inflight = <<>>
    /\ cbCalls = <<>>
    /\ written = <<>>
    /\ cbFailure = NoCbFailure
    /\ outcome = "pending"
    /\ ret = <<>>
    /\ err = NoError
    /\ gpvIdle
    /\ resolverIdle
    /\ handlerIdle

Throw(e) ==
    /\ pc' = "done"
    /\ outcome' = "threw"
    /\ err' = e

(* a precheck that lets every otherParametersCount through *)
PrecheckSkipped ==
    /\ pc = "start"
    /\ pc' = "plan"
    /\ UNCHANGED <<outcome, err>>
    /\ UNCHANGED <<items, otherParametersCount, idx, chunks, chunk,
                   chunkParameters, execIdx, results, inflight, cbCalls,
                   written, cbFailure, ret>>
    /\ UNCHANGED nonChunkVars

(* if (otherParametersCount > D1_MAX_PARAMETERS) throw *)
Precheck ==
    /\ pc = "start"
    /\ IF otherParametersCount > D1_MAX_PARAMETERS
       THEN Throw(PrecheckError)
       ELSE pc' = "plan" /\ UNCHANGED <<outcome, err>>
    /\ UNCHANGED <<items, otherParametersCount, idx, chunks, chunk,
                   chunkParameters, execIdx, results, inflight, cbCalls,
                   written, cbFailure, ret>>
    /\ UNCHANGED nonChunkVars

(* the loop body without the oversized-item check *)
PlanItemUnchecked ==
    /\ pc = "plan"
    /\ idx < Len(items)
    /\ LET item == items[idx + 1]
           itemParameters == itemParametersOf(item)
       IN  /\ idx' = idx + 1
           /\ IF chunkParameters + itemParameters + otherParametersCount
                    > D1_MAX_PARAMETERS
              THEN /\ chunks' = Append(chunks, chunk)
                   /\ chunkParameters' = itemParameters
                   /\ chunk' = <<item>>
              ELSE /\ chunk' = Append(chunk, item)
                   /\ chunkParameters' = chunkParameters + itemParameters
                   /\ UNCHANGED chunks
           /\ UNCHANGED <<pc, outcome, err>>
    /\ UNCHANGED <<items, otherParametersCount, execIdx, results, inflight,
                   cbCalls, written, cbFailure, ret>>
    /\ UNCHANGED nonChunkVars

(* the loop body closing a batch already when the ceiling is reached *)
PlanItemCloseAtCeiling ==
    /\ pc = "plan"
    /\ idx < Len(items)
    /\ LET item == items[idx + 1]
           itemParameters == itemParametersOf(item)
       IN  /\ idx' = idx + 1
           /\ IF itemParameters > D1_MAX_PARAMETERS
              THEN /\ Throw(ItemTooLargeError(itemParameters))
                   /\ UNCHANGED <<chunks, chunk, chunkParameters>>
              ELSE IF chunkParameters + itemParameters + otherParametersCount
                         >= D1_MAX_PARAMETERS
              THEN /\ chunks' = Append(chunks, chunk)
                   /\ chunkParameters' = itemParameters
                   /\ chunk' = <<item>>
                   /\ UNCHANGED <<pc, outcome, err>>
              ELSE /\ chunk' = Append(chunk, item)
                   /\ chunkParameters' = chunkParameters + itemParameters
                   /\ UNCHANGED <<chunks, pc, outcome, err>>
    /\ UNCHANGED <<items, otherParametersCount, execIdx, results, inflight,
                   cbCalls, written, cbFailure, ret>>
    /\ UNCHANGED nonChunkVars

(* one iteration of for (const item of items) *)
PlanItem ==
    /\ pc = "plan"
    /\ idx < Len(items)
    /\ LET item == items[idx + 1]
           itemParameters == itemParametersOf(item)
       IN  /\ idx' = idx + 1
           /\ IF itemParameters > D1_MAX_PARAMETERS
              THEN /\ Throw(ItemTooLargeError(itemParameters))
                   /\ UNCHANGED <<chunks, chunk, chunkParameters>>
              ELSE IF chunkParameters + itemParameters + otherParametersCount
                         > D1_MAX_PARAMETERS
              THEN /\ chunks' = Append(chunks, chunk)
                   /\ chunkParameters' = itemParameters
                   /\ chunk' = <<item>>
                   /\ UNCHANGED <<pc, outcome, err>>
              ELSE /\ chunk' = Append(chunk, item)
                   /\ chunkParameters' = chunkParameters + itemParameters
                   /\ UNCHANGED <<chunks, pc, outcome, err>>
    /\ UNCHANGED <<items, otherParametersCount, execIdx, results, inflight,
                   cbCalls, written, cbFailure, ret>>
    /\ UNCHANGED nonChunkVars

(* the trailing batch pushed without looking at its length *)
PlanEndAlwaysPush ==
    /\ pc = "plan"
    /\ idx = Len(items)
    /\ chunks' = Append(chunks, chunk)
    /\ pc' = "exec"
    /\ UNCHANGED <<items, otherParametersCount, idx, chunk, chunkParameters,
                   execIdx, results, inflight, cbCalls, written, cbFailure,
                   outcome, ret, err>>
    /\ UNCHANGED nonChunkVars

(* the items are exhausted: if (chunk.length) chunks.push(chunk) *)
PlanEnd ==
    /\ pc = "plan"
    /\ idx = Len(items)
    /\ chunks' = IF Len(chunk) # 0 THEN Append(chunks, chunk) ELSE chunks
    /\ pc' = "exec"
    /\ UNCHANGED <<items, otherParametersCount, idx, chunk, chunkParameters,
                   execIdx, results, inflight, cbCalls, written, cbFailure,
                   outcome, ret, err>>
    /\ UNCHANGED nonChunkVars

(* cb(chunk) called without awaiting it before the next iteration *)
SubmitNoAwait ==
    /\ pc = "exec"
    /\ execIdx <= Len(chunks)
    /\ inflight' = Append(inflight, chunks[execIdx])
    /\ cbCalls' = Append(cbCalls, chunks[execIdx])
    /\ execIdx' = execIdx + 1
    /\ UNCHANGED <<items, otherParametersCount, pc, idx, chunks, chunk,
                   chunkParameters, results, written, cbFailure, outcome,
                   ret, err>>
    /\ UNCHANGED nonChunkVars

(* for (const chunk of chunks) { await cb(chunk) ... : the call *)
Submit ==
    /\ pc = "exec"
    /\ execIdx <= Len(chunks)
    /\ inflight' = Append(inflight, chunks[execIdx])
    /\ cbCalls' = Append(cbCalls, chunks[execIdx])
    /\ pc' = "await"
    /\ UNCHANGED <<items, otherParametersCount, idx, chunks, chunk,
                   chunkParameters, execIdx, results, written, cbFailure,
                   outcome, ret, err>>
    /\ UNCHANGED nonChunkVars

(* the promise of cb resolves: results.push(result) *)
CbResolve ==
    /\ pc = "await"
    /\ inflight # <<>>
    /\ written' = Append(written, Head(inflight))
    /\ results' = Append(results, CbResult(Head(inflight)))
    /\ inflight' = Tail(inflight)
    /\ execIdx' = execIdx + 1
    /\ pc' = "exec"
    /\ UNCHANGED <<items, otherParametersCount, idx, chunks, chunk,
                   chunkParameters, cbCalls, cbFailure, outcome, ret, err>>
    /\ UNCHANGED nonChunkVars

(* a rejection of cb that is caught and skipped *)
CbRejectSwallowed ==
    /\ pc = "await"
    /\ inflight # <<>>
    /\ \E e \in BackendErrors :
          cbFailure' = [batch |-> execIdx, error |-> e]
    /\ results' = Append(results, <<>>)
    /\ inflight' = Tail(inflight)
    /\ execIdx' = execIdx + 1
    /\ pc' = "exec"
    /\ UNCHANGED <<items, otherParametersCount, idx, chunks, chunk,
                   chunkParameters, cbCalls, written, outcome, ret, err>>
    /\ UNCHANGED nonChunkVars

(* the promise of cb rejects: the await rethrows, nothing catches it *)
CbReject ==
    /\ pc = "await"
    /\ inflight # <<>>
    /\ \E e \in BackendErrors :
          /\ cbFailure' = [batch |-> execIdx, error |-> e]
          /\ Throw(e)
    /\ inflight' = Tail(inflight)
    /\ UNCHANGED <<items, otherParametersCount, idx, chunks, chunk,
                   chunkParameters, execIdx, results, cbCalls, written, ret>>
    /\ UNCHANGED nonChunkVars

(* return results.flat() *)
Return ==
    /\ pc = "exec"
    /\ execIdx > Len(chunks)
    /\ inflight = <<>>
    /\ ret' = flat(results)
    /\ outcome' = "returned"
    /\ pc' = "done"
    /\ UNCHANGED <<items, otherParametersCount, idx, chunks, chunk,
                   chunkParameters, execIdx, results, inflight, cbCalls,
                   written, cbFailure, err>>
    /\ UNCHANGED nonChunkVars

NextChunk ==
    \/ Precheck
    \/ PlanItem
    \/ PlanEnd
    \/ Submit
    \/ CbResolve
    \/ CbReject
    \/ Return

SpecChunk == InitChunk /\ [][NextChunk]_vars

----------------------------------------------------------------------------
(* getPlaylistVideos: the async function, one action per synchronous      *)
(* stretch between awaits                                                  *)

chunkIdle ==
    /\ items = <<>>
    /\ otherParametersCount = 0
    /\ pc = "idle"
    /\ idx = 0
    /\ chunks = <<>>
    /\ chunk = <<>>
    /\ chunkParameters = 0
    /\ execIdx = 1
    /\ results = <<>>
    /\ inflight = <<>>
    /\ cbCalls = <<>>
    /\ written = <<>>
    /\ cbFailure = NoCbFailure
    /\ outcome = "pending"
    /\ ret = <<>>
    /\ err = NoError

(* the call getPlaylistVideos(apiKey, playlistId) against some playlist *)
InitPlaylist ==
    /\ variant \in SourceVersions
    /\ pageSizes \in Playlists
    /\ endless = FALSE
    /\ gpvPc = "loop"
    /\ videos = <<>>
    /\ nextPageToken = Undefined
    /\ requests = <<>>
    /\ pagesOk = 0
    /\ pageFailure = NoFailure
    /\ gpvOutcome = "pending"
    /\ gpvRet = <<>>
    /\ gpvErr = NoError
    /\ chunkIdle
    /\ resolverIdle
    /\ handlerIdle

(* do { const apiUrl = ...; const response = await fetch(apiUrl) *)
GpvRequest ==
    /\ gpvPc = "loop"
    /\ requests' = Append(IF endless /\ Len(requests) >= MaxPages
                           THEN Tail(requests) ELSE requests,
                           ApiToken(nextPageToken))
    /\ gpvPc' = "fetching"
    /\ UNCHANGED <<variant, pageSizes, endless, videos, nextPageToken, pagesOk,
                   pageFailure, gpvOutcome, gpvRet, gpvErr>>
    /\ UNCHANGED nonGpvVars

(* the page arrives: push its items, take its token, loop or return.  (Of *)
(* an endless upstream the logs requests and pagesOk keep the last        *)
(* MaxPages entries only.)                                                 *)
GpvPageOk ==
    /\ gpvPc = "fetching"
    /\ LET data == ResponseOf(pageSizes, requests[Len(requests)], endless)
           pushed == videos \o [m \in 1..Len(data.items) |-> VideoOf(data.items[m])]
       IN  /\ videos' = pushed
           /\ nextPageToken' = data.nextPageToken
           /\ pagesOk' = IF endless /\ pagesOk >= MaxPages
                         THEN pagesOk ELSE pagesOk + 1
           /\ IF MorePages(data.nextPageToken)
              THEN /\ gpvPc' = "loop"
                   /\ UNCHANGED <<gpvOutcome, gpvRet>>
              ELSE /\ gpvPc' = "done"
                   /\ gpvOutcome' = "returned"
                   /\ gpvRet' = pushed
    /\ UNCHANGED <<variant, pageSizes, endless, requests, pageFailure, gpvErr>>
    /\ UNCHANGED nonGpvVars

(* the page request fails: fetch rejects, or the payload has no items.    *)
(* src/src/index.ts catches it and returns []; the handler file has no    *)
(* try/catch, so the rejection leaves the function.                       *)
GpvPageFail ==
    /\ gpvPc = "fetching"
    /\ \E kind \in {"reject", "malformed"} :
          /\ pageFailure' = [after |-> pagesOk, kind |-> kind]
          /\ IF variant = "index.ts"
             THEN /\ gpvOutcome' = "returned"
                  /\ gpvRet' = <<>>
                  /\ UNCHANGED gpvErr
             ELSE /\ gpvOutcome' = "threw"
                  /\ gpvErr' = FetchError(kind)
                  /\ UNCHANGED gpvRet
    /\ gpvPc' = "done"
    /\ UNCHANGED <<variant, pageSizes, endless, videos, nextPageToken,
                   requests, pagesOk>>
    /\ UNCHANGED nonGpvVars

NextPlaylist ==
    \/ GpvRequest
    \/ GpvPageOk
    \/ GpvPageFail

SpecPlaylist == InitPlaylist /\ [][NextPlaylist]_vars

----------------------------------------------------------------------------
(* extractUsername *)

Lower ==
    {"a", "b", "c", "d", "e", "f", "g", "h", "i", "j", "k", "l", "m", "n",
     "o", "p", "q", "r", "s", "t", "u", "v", "w", "x", "y", "z"}

Upper ==
    {"A", "B", "C", "D", "E", "F", "G", "H", "I", "J", "K", "L", "M", "N",
     "O", "P", "Q", "R", "S", "T", "U", "V", "W", "X", "Y", "Z"}

Digit ==
    {"0", "1", "2", "3", "4", "5", "6", "7", "8", "9"}

(* \w *)
WordChar == Lower \cup Upper \cup Digit \cup {"_"}

(* [\w-] *)
ChannelIdChar == WordChar \cup {"-"}

(* [\w@-] *)
NameChar == WordChar \cup {"@", "-"}

(* String.prototype.startsWith *)
StartsWith(str, prefix) ==
    /\ Len(str) >= Len(prefix)
    /\ SubSeq(str, 1, Len(prefix)) = prefix

Drop(str, n) == SubSeq(str, n + 1, Len(str))

(* the optional part x? of the regex, taken when it is there: no pattern  *)
(* that follows an optional part can start with the same characters       *)
SkipOptional(str, part) ==
    IF StartsWith(str, part) THEN Drop(str, Len(part)) ELSE str

(* channel\/UC[\w-]{21}[AQgw]$ *)
MatchesChannelId(str) ==
    /\ StartsWith(str, <<"c", "h", "a", "n", "n", "e", "l", "/", "U", "C">>)
    /\ Len(str) = Len(<<"c", "h", "a", "n", "n", "e", "l", "/", "U", "C">>) + 22
    /\ \A i \in (Len(<<"c", "h", "a", "n", "n", "e", "l", "/", "U", "C">>) + 1)..(Len(str) - 1) : str[i] \in ChannelIdChar
    /\ str[Len(str)] \in {"A", "Q", "g", "w"}

(* (c\/|user\/)?[\w@-]+$ *)
MatchesName(str) ==
    \E prefix \in {<<>>, <<"c", "/">>, <<"u", "s", "e", "r", "/">>} :
        /\ StartsWith(str, prefix)
        /\ Len(str) > Len(prefix)
        /\ \A i \in (Len(prefix) + 1)..Len(str) : str[i] \in NameChar

NoMatch == [found |-> FALSE, groups |-> <<>>]

(* input.match(urlRegex): groups[2] is the second capture group, the      *)
(* whole text after "youtube.com/"                                        *)
MatchUrlRegex(input) ==
    IF ~StartsWith(input, <<"h", "t", "t", "p">>) THEN NoMatch
    ELSE LET afterScheme == SkipOptional(Drop(input, Len(<<"h", "t", "t", "p">>)), <<"s">>) IN
         IF ~StartsWith(afterScheme, <<":", "/", "/">>) THEN NoMatch
         ELSE LET afterWww == SkipOptional(Drop(afterScheme, Len(<<":", "/", "/">>)), <<"w", "w", "w", ".">>) IN
              IF ~StartsWith(afterWww, <<"y", "o", "u", "t", "u", "b", "e", ".", "c", "o", "m", "/">>) THEN NoMatch
              ELSE LET group2 == Drop(afterWww, Len(<<"y", "o", "u", "t", "u", "b", "e", ".", "c", "o", "m", "/">>)) IN
                   IF MatchesChannelId(group2) \/ MatchesName(group2)
                   THEN [found |-> TRUE, groups |-> <<<<>>, group2>>]
                   ELSE NoMatch

(* function extractUsername(input: string): string | null *)
extractUsername(input) ==
    IF StartsWith(input, <<"@">>) THEN Str(input)
    ELSE LET match == MatchUrlRegex(input) IN
         IF match.found THEN Str(match.groups[2]) ELSE Null

(* Inputs: handles, and urls put together from parts *)
Schemes == {<<>>, <<"h", "t", "t", "p", ":", "/", "/">>, <<"h", "t", "t", "p", "s", ":", "/", "/">>, <<"f", "t", "p", ":", "/", "/">>}

WwwParts == {<<>>, <<"w", "w", "w", ".">>}

Hosts == {<<"y", "o", "u", "t", "u", "b", "e", ".", "c", "o", "m", "/">>, <<"e", "x", "a", "m", "p", "l", "e", ".", "c", "o", "m", "/">>, <<"y", "o", "u", "t", "u", "b", "e", ".", "c", "o", "m", ".", "e", "v", "i", "l", "/">>}

PathPrefixes == {<<>>, <<"c", "/">>, <<"u", "s", "e", "r", "/">>, <<"c", "h", "a", "n", "n", "e", "l", "/">>}

ChannelIdOk == <<"U", "C", "a", "b", "c", "d", "e", "f", "g", "h", "i", "j", "-", "K", "L", "M", "N", "O", "_", "1", "2", "3", "4", "Q">>

ChannelIdShort == <<"U", "C", "a", "b", "c", "Q">>

Names == {<<>>, <<"B", "a", "r">>, <<"@", "f", "o", "o">>, <<"x", "-", "y", "_", "1">>, <<"a", ".", "b">>, ChannelIdOk, ChannelIdShort}

UrlInputs ==
    { sc \o w \o h \o pre \o n :
        sc \in Schemes, w \in WwwParts, h \in Hosts,
        pre \in PathPrefixes, n \in Names }

HandleInputs == {<<"@", "f", "o", "o">>, <<"@">>, <<"@", "f", "o", "o", " ", "b", "a", "r">>, <<"f", "o", "o">>}

ResolverInputs == UrlInputs \cup HandleInputs

(* the call extractUsername(input) *)
InitResolver ==
    /\ exInput \in ResolverInputs
    /\ exPc = "call"
    /\ exResult = Null
    /\ chunkIdle
    /\ gpvIdle
    /\ handlerIdle

ExtractUsername ==
    /\ exPc = "call"
    /\ exResult' = extractUsername(exInput)
    /\ exPc' = "done"
    /\ UNCHANGED exInput
    /\ UNCHANGED nonResolverVars

NextResolver == ExtractUsername

SpecResolver == InitResolver /\ [][NextResolver]_vars

----------------------------------------------------------------------------
(* GET / handler: upstream data and pure helpers *)

(* autochunk's planning loop as a function of the item costs: the batches *)
(* as sequences of item positions, or the error thrown                    *)
(* the running totals costs[a] + base, ..., costs[a] + ... + costs[b] +  *)
(* base, computed by halves                                                *)
RECURSIVE PrefixSums(_, _, _, _)
PrefixSums(costs, a, b, base) ==
    IF a > b THEN <<>>
    ELSE IF a = b THEN <<base + costs[a]>>
    ELSE CHOOSE sums \in
            { left \o PrefixSums(costs, (a + b) \div 2 + 1, b, left[Len(left)])
              : left \in {PrefixSums(costs, a, (a + b) \div 2, base)} } : TRUE

(* what the planning loop reads of its input: the item costs, their       *)
(* running totals, and the position of the first item above the ceiling   *)
PlanInput(costs, other) ==
    [costs |-> costs,
     other |-> other,
     sums |-> PrefixSums(costs, 1, Len(costs), 0),
     firstTooLarge |->
        LET large == {m \in 1..Len(costs) : costs[m] > D1_MAX_PARAMETERS}
        IN  IF large = {} THEN Len(costs) + 1
            ELSE CHOOSE m \in large : \A k \in large : m <= k]

SumCosts(in, a, b) ==
    IF a > b THEN 0
    ELSE in.sums[b] - (IF a = 1 THEN 0 ELSE in.sums[a - 1])

(* the last of the items from..e that the loop appends to a chunk which   *)
(* already holds `held` parameters: each is no larger than the ceiling    *)
(* and passes the test chunkParameters + itemParameters + other <= ceiling *)
(* (costs are not negative, so the test passes up to e when it passes at  *)
(* e); from - 1 when the first one is not appended                        *)
AppendedUpTo(in, from, held) ==
    CHOOSE e \in (from - 1)..Len(in.costs) :
       LET Goes(j) ==
              /\ j < in.firstTooLarge
              /\ held + SumCosts(in, from, j) + in.other <= D1_MAX_PARAMETERS
       IN  (e < from \/ Goes(e)) /\ (e = Len(in.costs) \/ ~Goes(e + 1))

(* the planning loop from item i on, the open chunk holding the items     *)
(* first..i-1 with held parameters; one step per closed chunk.  (The      *)
(* value of e is bound by a set so that it is computed once.)              *)
RECURSIVE PlanLoop(_, _, _, _, _)
PlanLoop(in, i, first, held, closed) ==
    CHOOSE plan \in
       { IF e = Len(in.costs)
         THEN [error |-> NoError,
               chunks |-> IF e >= first
                          THEN Append(closed, <<first, e>>) ELSE closed]
         ELSE IF in.costs[e + 1] > D1_MAX_PARAMETERS
         THEN [error |-> ItemTooLargeError(in.costs[e + 1]), chunks |-> <<>>]
         ELSE PlanLoop(in, e + 2, e + 1, in.costs[e + 1],
                       Append(closed, <<first, e>>))
         : e \in {AppendedUpTo(in, i, held)} } : TRUE

(* the chunks autochunk plans, each as <<first, last>> item positions     *)
(* (last = first - 1 for an empty chunk), or its error                     *)
AutochunkPlan(costs, other) ==
    IF other > D1_MAX_PARAMETERS
    THEN [error |-> PrecheckError, chunks |-> <<>>]
    ELSE CHOOSE plan \in
            { PlanLoop(in, 1, 1, 0, <<>>)
              : in \in {PlanInput(costs, other)} } : TRUE

(* Object.keys(row).length of a row object *)
RowCost(row) == Cardinality(DOMAIN row)

CostsOf(rows) == [i \in 1..Len(rows) |-> RowCost(rows[i])]

(* the planned chunks as sequences of rows *)
BatchesOf(rows, plan) ==
    [error |-> plan.error,
     chunks |-> [c \in 1..Len(plan.chunks) |->
                   SubSeq(rows, plan.chunks[c][1], plan.chunks[c][2])]]

(* the batches autochunk(rows, cb) hands to cb, otherParametersCount = 0  *)
(* (rows and plan are bound by a set so that each is computed once)        *)
RowChunks(rows) ==
    CHOOSE out \in
       { BatchesOf(pair[1], pair[2])
         : pair \in { <<given, AutochunkPlan(CostsOf(given), 0)>>
                      : given \in {rows} } } : TRUE

(* c.req.query('url'): undefined, empty, no channel url, a handle, and a  *)
(* custom url                                                             *)
UrlQueries ==
    { Null, Str(<<>>), Str(<<"h", "t", "t", "p", "s", ":", "/", "/", "e", "x", "a", "m", "p", "l", "e", ".", "c", "o", "m", "/", "x">>),
      Str(<<"@", "f", "o", "o">>), Str(<<"h", "t", "t", "p", "s", ":", "/", "/", "y", "o", "u", "t", "u", "b", "e", ".", "c", "o", "m", "/", "c", "/", "B", "a", "r">>) }

UploadsPlaylistId == "UUuploads"

(* playlistItems item of video v after its title and thumbnail changed *)
UpstreamItemEdited(v) ==
    [snippet |-> [title |-> "new title" \o ToString(v),
                  resourceId |-> [videoId |-> "vid" \o ToString(v)],
                  thumbnails |-> [high |-> [url |-> "new thumb" \o ToString(v)]]]]

(* what getPlaylistVideos returns for a playlist whose page requests all  *)
(* succeed: the records of all pages in page order                        *)
PlaylistVideos(sizes, edited) ==
    flat([j \in 1..Len(sizes) |->
            [m \in 1..sizes[j] |->
               VideoOf(IF edited
                       THEN UpstreamItemEdited(Offset(sizes, j) + m)
                       ELSE UpstreamItem(Offset(sizes, j) + m))]])

(* videos.list item of video v; a count the channel hides is absent *)
StatsItem(v, hidden) ==
    [id |-> "vid" \o ToString(v),
     statistics |-> [viewCount |-> ToString(v),
                     likeCount |-> IF hidden THEN Undefined ELSE "0",
                     commentCount |-> ToString(2 * v)]]

batchSize == 50

(* how the upstream answers one statistics request *)
StatOutcomes == {"full", "hidden", "missing", "fail"}

(* number of the video with external id videoId, among the first n *)
VideoNumber(videoId, n) ==
    CHOOSE v \in 1..n : "vid" \o ToString(v) = videoId

(* data.items of the answer to a request for videoIds: every id, every id *)
(* with likeCount absent, or every id but the first                       *)
StatsPayloadItems(videoIds, n, kind) ==
    LET asked == IF kind = "missing" THEN Tail(videoIds) ELSE videoIds
    IN  [i \in 1..Len(asked) |->
           StatsItem(VideoNumber(asked[i], n), kind = "hidden")]

NoStat ==
    [videoId |-> Undefined, viewCount |-> Undefined,
     likeCount |-> Undefined, commentCount |-> Undefined]

NotAvailable(videoId) ==
    [videoId |-> videoId, viewCount |-> "N/A",
     likeCount |-> "N/A", commentCount |-> "N/A"]

(* stats.find(s => s.videoId === id): the first match or undefined *)
FindStat(stats, id) ==
    LET hits == {i \in 1..Len(stats) : stats[i].videoId = id}
    IN  IF hits = {} THEN NoStat
        ELSE stats[CHOOSE i \in hits : \A j \in hits : i <= j]

(* data.items.map(item => ({videoId: item.id, ...item.statistics})) *)
MapStats(payloadItems) ==
    [i \in 1..Len(payloadItems) |->
       [videoId |-> payloadItems[i].id,
        viewCount |-> payloadItems[i].statistics.viewCount,
        likeCount |-> payloadItems[i].statistics.likeCount,
        commentCount |-> payloadItems[i].statistics.commentCount]]

(* getVideoStatistics(apiKey, videoIds) once its fetch has settled.       *)
(* part_002: the mapped items, [] when the fetch failed.                   *)
(* index.ts: "N/A" records for a failed or empty answer and for every id  *)
(* the answer leaves out.                                                  *)
getVideoStatistics(version, videoIds, n, kind) ==
    IF version = "part_002"
    THEN IF kind = "fail" THEN <<>>
         ELSE MapStats(StatsPayloadItems(videoIds, n, kind))
    ELSE IF kind = "fail" \/ StatsPayloadItems(videoIds, n, kind) = <<>>
         THEN [i \in 1..Len(videoIds) |-> NotAvailable(videoIds[i])]
         ELSE LET stats == MapStats(StatsPayloadItems(videoIds, n, kind))
              IN  [i \in 1..Len(videoIds) |->
                     IF FindStat(stats, videoIds[i]) = NoStat
                     THEN NotAvailable(videoIds[i])
                     ELSE FindStat(stats, videoIds[i])]

(* only the full groups of batchSize ids *)
StatGroupsFullOnly(videoIds) ==
    [g \in 1..(Len(videoIds) \div batchSize) |->
       SubSeq(videoIds, (g - 1) * batchSize + 1, g * batchSize)]

(* videoIds.slice(i, i + batchSize) for i = 0, batchSize, ... *)
StatGroups(videoIds) ==
    [g \in 1..((Len(videoIds) + batchSize - 1) \div batchSize) |->
       SubSeq(videoIds, (g - 1) * batchSize + 1,
              IF g * batchSize < Len(videoIds)
              THEN g * batchSize ELSE Len(videoIds))]

(* x || "N/A" *)
OrNA(x) == IF Truthy(x) THEN x ELSE "N/A"

(* x || 0 for a count: the integer column stores the number 0 and the     *)
(* text "0" alike                                                          *)
OrZero(x) == IF Truthy(x) THEN x ELSE "0"

WatchUrl(videoId) == "https://www.youtube.com/watch?v=" \o videoId

(* one element of videosWithStats, looked up by position *)
JoinedAt(version, username, videoList, stats, i) ==
    LET video == videoList[i]
        stat == IF i <= Len(stats) THEN stats[i] ELSE NoStat
    IN  [videoID |-> video.videoId,
         channelName |-> IF version = "part_002" THEN username ELSE <<>>,
         title |-> video.videoTitle,
         url |-> WatchUrl(video.videoId),
         viewCount |-> OrNA(stat.viewCount),
         likeCount |-> OrNA(stat.likeCount),
         commentCount |-> OrNA(stat.commentCount),
         thumbnailUrl |-> video.thumbnailUrl]

(* one element of videosWithStats: the video joined with its statistics *)
Joined(version, username, videoList, stats, i) ==
    LET video == videoList[i]
        stat == FindStat(stats, video.videoId)
    IN  [videoID |-> video.videoId,
         channelName |-> IF version = "part_002" THEN username ELSE <<>>,
         title |-> video.videoTitle,
         url |-> WatchUrl(video.videoId),
         viewCount |-> OrNA(stat.viewCount),
         likeCount |-> OrNA(stat.likeCount),
         commentCount |-> OrNA(stat.commentCount),
         thumbnailUrl |-> video.thumbnailUrl]

NoResponse == [kind |-> "", text |-> "", totalVideos |-> 0, videos |-> <<>>]

(* c.text(sentence) *)
TextResponse(sentence) ==
    [kind |-> "text", text |-> sentence, totalVideos |-> 0, videos |-> <<>>]

(* c.text(JSON.stringify(jsonResponse, null, 2), 200, ...) without the    *)
(* elapsedTime field                                                       *)
JsonResponse(version, username, videoList, stats) ==
    LET videosWithStats ==
            [i \in 1..Len(videoList) |->
               Joined(version, username, videoList, stats, i)]
    IN  [kind |-> "json", text |-> "200 OK",
         totalVideos |-> Len(videosWithStats), videos |-> videosWithStats]

----------------------------------------------------------------------------
(* The store: the tables of the schema and what an insert does *)

MaxRuns == 2

UniqueError == MkError("D1_ERROR: UNIQUE constraint failed")

NotNullError == MkError("D1_ERROR: NOT NULL constraint failed")

ForeignKeyError == MkError("D1_ERROR: FOREIGN KEY constraint failed")

TransientError == MkError("D1_ERROR: Network connection lost.")

(* Map.get of a key the map does not hold; row ids start at 1 *)
UndefinedId == 0

NoChannel == [id |-> UndefinedId, channelName |-> <<>>]

EmptyMap == [key \in {} |-> UndefinedId]

MapGet(map, key) == IF key \in DOMAIN map THEN map[key] ELSE UndefinedId

(* channel_name without its unique() constraint *)
ChannelNameFree(table, channelName) == FALSE

(* channels.channel_name: text('channel_name').notNull().unique() *)
ChannelNameTaken(table, channelName) ==
    \E i \in 1..Len(table) : table[i].channelName = channelName

(* videos.video_id: text('video_id').notNull().unique(), for the rows of  *)
(* one insert statement                                                    *)
VideoIdsTaken(table, rows) ==
    \/ \E i \in 1..Len(table), j \in 1..Len(rows) :
          table[i].videoId = rows[j].videoId
    \/ \E j1, j2 \in 1..Len(rows) :
          j1 # j2 /\ rows[j1].videoId = rows[j2].videoId

(* video_statistics.video_id: notNull().references(() => videos.id) *)
StatsRowsRejected(videoTable, rows) ==
    IF \E j \in 1..Len(rows) : rows[j].videoId = UndefinedId
    THEN NotNullError
    ELSE IF \E j \in 1..Len(rows) :
               \A i \in 1..Len(videoTable) : videoTable[i].id # rows[j].videoId
    THEN ForeignKeyError
    ELSE NoError

(* id: integer('id').primaryKey({ autoIncrement: true }), rows are never  *)
(* deleted: insert(...).values(rows).returning()                           *)
Returning(table, rows) ==
    [j \in 1..Len(rows) |-> [id |-> Len(table) + j] @@ rows[j]]

----------------------------------------------------------------------------
(* GET / handler (app.get('/')), one action per stretch between awaits *)

Sentences ==
    [missing |-> "URL or username is missing",
     invalid |-> "Invalid input (either a YouTube URL or a username is required)",
     noUploads |-> "Unable to fetch uploads channel ID.",
     noVideos |-> "No videos found in the playlist."]

(* a request that reached the handler with query parameter url *)
NewRequest(url) ==
    [pc |-> "start",
     url |-> url,
     username |-> Null,
     calls |-> <<>>,
     uploadsChannelId |-> Undefined,
     fetched |-> FALSE,
     videos |-> <<>>,
     groups |-> <<>>,
     order |-> <<>>,
     stats |-> <<>>,
     channel |-> NoChannel,
     existingVideoMap |-> EmptyMap,
     videoIdMap |-> EmptyMap,
     chunks |-> <<>>,
     k |-> 1,
     results |-> <<>>,
     submittedVideos |-> <<>>,
     submittedStats |-> <<>>,
     response |-> NoResponse,
     error |-> NoError,
     failedStep |-> "",
     startLens |-> [channels |-> Len(db.channels),
                    videos |-> Len(db.videos),
                    stats |-> Len(db.stats)]]

Finish(q, response) == [q EXCEPT !.pc = "done", !.response = response]

(* an exception nothing catches leaves the handler *)
Fail(q, step, e) ==
    [q EXCEPT !.pc = "failed", !.error = e, !.failedStep = step]

Respond(q) ==
    Finish(q, JsonResponse(variant, q.username.str, q.videos, q.stats))

(* const videoIds = videos.map(video => video.videoId) *)
VideoIds(videoList) == [i \in 1..Len(videoList) |-> videoList[i].videoId]

(* videosInsertData *)
VideosInsertData(videoList, channel) ==
    [i \in 1..Len(videoList) |->
       [videoId |-> videoList[i].videoId,
        channelId |-> channel.id,
        title |-> videoList[i].videoTitle,
        url |-> WatchUrl(videoList[i].videoId),
        thumbnailUrl |-> videoList[i].thumbnailUrl]]

(* new Map(existingVideos.map(video => [video.videoId, video.id])) *)
VideoMapOf(table) ==
    [key \in {table[i].videoId : i \in 1..Len(table)} |->
       (CHOOSE i \in 1..Len(table) : table[i].videoId = key)]

(* the filter over positions a..b of the array, computed by halves *)
RECURSIVE FilterNew(_, _, _, _)
FilterNew(videosData, existingVideoMap, a, b) ==
    IF a > b THEN <<>>
    ELSE IF a = b
    THEN IF videosData[a].videoId \notin DOMAIN existingVideoMap
         THEN <<videosData[a]>> ELSE <<>>
    ELSE FilterNew(videosData, existingVideoMap, a, (a + b) \div 2)
            \o FilterNew(videosData, existingVideoMap, (a + b) \div 2 + 1, b)

(* every fetched video handed on for insertion *)
NewVideosDataUnfiltered(videosData, existingVideoMap) == videosData

(* videosData.filter(video => !existingVideoMap.has(video.videoId)) *)
NewVideosData(videosData, existingVideoMap) ==
    FilterNew(videosData, existingVideoMap, 1, Len(videosData))

(* existingVideoMap.set(video.videoId, video.id) for the inserted rows *)
MapWithInserted(existingVideoMap, insertedVideos) ==
    [key \in DOMAIN existingVideoMap
               \cup {insertedVideos[i].videoId : i \in 1..Len(insertedVideos)} |->
       LET hits == {i \in 1..Len(insertedVideos) : insertedVideos[i].videoId = key}
       IN  IF hits = {} THEN existingVideoMap[key]
           ELSE insertedVideos[CHOOSE i \in hits : \A j \in hits : j <= i].id]

(* the database id looked up under the watch url instead of the video id *)
StatsWithDbIdsByUrl(statsData, videoIdMap) ==
    [i \in 1..Len(statsData) |->
       [videoId |-> MapGet(videoIdMap, WatchUrl(statsData[i].videoId)),
        viewCount |-> OrZero(statsData[i].viewCount),
        likeCount |-> OrZero(statsData[i].likeCount),
        commentCount |-> OrZero(statsData[i].commentCount)]]

(* statsWithDbIds *)
StatsWithDbIds(statsData, videoIdMap) ==
    [i \in 1..Len(statsData) |->
       [videoId |-> MapGet(videoIdMap, statsData[i].videoId),
        viewCount |-> OrZero(statsData[i].viewCount),
        likeCount |-> OrZero(statsData[i].likeCount),
        commentCount |-> OrZero(statsData[i].commentCount)]]

(* batchInsertVideos has its map: the handler goes on with               *)
(* batchInsertVideoStatistics up to its first cb call, or to the response *)
AfterVideos(q) ==
    LET videoIdMap == MapWithInserted(q.existingVideoMap, flat(q.results))
        plan == RowChunks(StatsWithDbIds(q.stats, videoIdMap))
        q1 == [q EXCEPT !.videoIdMap = videoIdMap]
    IN  IF plan.error # NoError THEN Fail(q1, "autochunk", plan.error)
        ELSE IF plan.chunks = <<>> THEN Respond(q1)
        ELSE [q1 EXCEPT !.pc = "insStats",
                        !.chunks = plan.chunks,
                        !.k = 1,
                        !.results = <<>>,
                        !.submittedStats = <<plan.chunks[1]>>]

(* the handler up to its first await: the two input checks *)
HandleRequest(r) ==
    /\ req[r].pc = "start"
    /\ LET q == req[r]
           username == extractUsername(q.url.str)
       IN  req' = [req EXCEPT ![r] =
              IF q.url.isNull \/ q.url.str = <<>>
              THEN Finish(q, TextResponse(Sentences.missing))
              ELSE IF username.isNull \/ username.str = <<>>
              THEN Finish(q, TextResponse(Sentences.invalid))
              ELSE [q EXCEPT !.pc = "uploads",
                             !.username = username,
                             !.calls = Append(q.calls, "channels")]]
    /\ UNCHANGED <<db, runs>>
    /\ UNCHANGED nonHandlerVars

(* getUploadsChannelId settles: the uploads playlist id, or null when the *)
(* fetch failed or no channel was found                                   *)
UploadsResolved(r) ==
    /\ req[r].pc = "uploads"
    /\ \E uploadsChannelId \in {Undefined, UploadsPlaylistId} :
          req' = [req EXCEPT ![r] =
              IF ~Truthy(uploadsChannelId)
              THEN Finish(@, TextResponse(Sentences.noUploads))
              ELSE [@ EXCEPT !.pc = "playlist",
                             !.uploadsChannelId = uploadsChannelId,
                             !.calls = Append(@, "playlistItems")]]
    /\ UNCHANGED <<db, runs>>
    /\ UNCHANGED nonHandlerVars

(* the handler going on to the statistics whatever the list holds *)
WithVideosUnchecked(q, videoList) ==
    LET groups == StatGroups(VideoIds(videoList)) IN
    [q EXCEPT !.pc = "stats",
              !.fetched = TRUE,
              !.videos = videoList,
              !.groups = [g \in 1..Len(groups) |->
                            [ids |-> groups[g], settled |-> FALSE,
                             kind |-> "", result |-> <<>>]],
              !.calls = @ \o [g \in 1..Len(groups) |-> "videos"]]

(* the handler once it has its video list: the zero-videos check, then    *)
(* batchGetVideoStatistics starts one fetch per group of 50 ids           *)
WithVideos(q, videoList) ==
    IF Len(videoList) = 0
    THEN Finish([q EXCEPT !.fetched = TRUE],
                TextResponse(Sentences.noVideos))
    ELSE LET groups == StatGroups(VideoIds(videoList)) IN
         [q EXCEPT !.pc = "stats",
                   !.fetched = TRUE,
                   !.videos = videoList,
                   !.groups = [g \in 1..Len(groups) |->
                                 [ids |-> groups[g], settled |-> FALSE,
                                  kind |-> "", result |-> <<>>]],
                   !.calls = @ \o [g \in 1..Len(groups) |-> "videos"]]

(* getPlaylistVideos returns the videos of the playlist *)
PlaylistResolved(r, playlists, edits) ==
    /\ req[r].pc = "playlist"
    /\ \E sizes \in playlists, edited \in edits :
          req' = [req EXCEPT ![r] =
                    WithVideos(@, PlaylistVideos(sizes, edited))]
    /\ UNCHANGED <<db, runs>>
    /\ UNCHANGED nonHandlerVars

(* a page request of getPlaylistVideos fails: index.ts returns [], the    *)
(* version of part_002 throws                                              *)
PlaylistFailed(r) ==
    /\ req[r].pc = "playlist"
    /\ \E kind \in {"reject", "malformed"} :
          req' = [req EXCEPT ![r] =
              IF variant = "index.ts"
              THEN WithVideos(@, <<>>)
              ELSE Fail(@, "playlist", FetchError(kind))]
    /\ UNCHANGED <<db, runs>>
    /\ UNCHANGED nonHandlerVars

(* the fetch of one statistics group settles, in any order *)
StatGroupResolved(r) ==
    /\ req[r].pc = "stats"
    /\ \E g \in 1..Len(req[r].groups), kind \in StatOutcomes :
          /\ ~req[r].groups[g].settled
          /\ req' = [req EXCEPT ![r].groups[g] =
                [ids |-> @.ids, settled |-> TRUE, kind |-> kind,
                 result |-> getVideoStatistics(variant, @.ids,
                                               Len(req[r].videos), kind)],
                                 ![r].order = Append(@, g)]
    /\ UNCHANGED <<db, runs>>
    /\ UNCHANGED nonHandlerVars

(* Promise.all(batches) resolves; results.flat().  index.ts answers now,  *)
(* part_002 goes on to insertChannel's lookup                              *)
StatsJoined(r) ==
    /\ req[r].pc = "stats"
    /\ \A g \in 1..Len(req[r].groups) : req[r].groups[g].settled
    /\ LET q == [req[r] EXCEPT !.stats =
                    flat([g \in 1..Len(req[r].groups) |->
                            req[r].groups[g].result])]
       IN  req' = [req EXCEPT ![r] =
              IF variant = "index.ts" THEN Respond(q)
              ELSE [q EXCEPT !.pc = "selChannel"]]
    /\ UNCHANGED <<db, runs>>
    /\ UNCHANGED nonHandlerVars

(* insertChannel: the select returns; existingChannel || insert *)
ChannelSelected(r) ==
    /\ req[r].pc = "selChannel"
    /\ LET name == req[r].username.str
           hits == {i \in 1..Len(db.channels) : db.channels[i].channelName = name}
       IN  req' = [req EXCEPT ![r] =
              IF hits # {}
              THEN [@ EXCEPT !.pc = "selVideos",
                             !.channel = db.channels[CHOOSE i \in hits : TRUE]]
              ELSE [@ EXCEPT !.pc = "insChannel"]]
    /\ UNCHANGED <<db, runs>>
    /\ UNCHANGED nonHandlerVars

(* insertChannel: the insert is executed *)
ChannelInserted(r) ==
    /\ req[r].pc = "insChannel"
    /\ LET rows == <<[channelName |-> req[r].username.str]>> IN
       IF ChannelNameTaken(db.channels, rows[1].channelName)
       THEN /\ req' = [req EXCEPT ![r] = Fail(@, "insertChannel", UniqueError)]
            /\ UNCHANGED db
       ELSE /\ db' = [db EXCEPT !.channels = @ \o Returning(@, rows)]
            /\ req' = [req EXCEPT ![r] =
                  [@ EXCEPT !.pc = "selVideos",
                            !.channel = Returning(db.channels, rows)[1]]]
    /\ UNCHANGED runs
    /\ UNCHANGED nonHandlerVars

(* batchInsertVideos: the select of the stored videos returns; the new    *)
(* videos are planned into batches and the first batch is handed to cb    *)
VideosSelected(r) ==
    /\ req[r].pc = "selVideos"
    /\ LET q == req[r]
           existingVideoMap == VideoMapOf(db.videos)
           plan == RowChunks(NewVideosData(
                       VideosInsertData(q.videos, q.channel), existingVideoMap))
           q1 == [q EXCEPT !.existingVideoMap = existingVideoMap,
                           !.chunks = plan.chunks,
                           !.k = 1,
                           !.results = <<>>]
       IN  req' = [req EXCEPT ![r] =
              IF plan.error # NoError THEN Fail(q1, "autochunk", plan.error)
              ELSE IF plan.chunks = <<>> THEN AfterVideos(q1)
              ELSE [q1 EXCEPT !.pc = "insVideos",
                              !.submittedVideos = <<plan.chunks[1]>>]]
    /\ UNCHANGED <<db, runs>>
    /\ UNCHANGED nonHandlerVars

(* the insert of one batch of videos is executed *)
VideoBatchInserted(r) ==
    /\ req[r].pc = "insVideos"
    /\ LET q == req[r]
           batch == q.chunks[q.k]
       IN  IF VideoIdsTaken(db.videos, batch)
           THEN /\ req' = [req EXCEPT ![r] = Fail(q, "insertVideos", UniqueError)]
                /\ UNCHANGED db
           ELSE /\ db' = [db EXCEPT !.videos = @ \o Returning(@, batch)]
                /\ LET q1 == [q EXCEPT !.results =
                                 Append(@, Returning(db.videos, batch))]
                   IN  req' = [req EXCEPT ![r] =
                          IF q.k < Len(q.chunks)
                          THEN [q1 EXCEPT !.k = q.k + 1,
                                          !.submittedVideos =
                                              Append(@, q.chunks[q.k + 1])]
                          ELSE AfterVideos(q1)]
    /\ UNCHANGED runs
    /\ UNCHANGED nonHandlerVars

(* the insert of one batch of statistics is executed *)
StatsBatchInserted(r) ==
    /\ req[r].pc = "insStats"
    /\ LET q == req[r]
           batch == q.chunks[q.k]
       IN  IF StatsRowsRejected(db.videos, batch) # NoError
           THEN /\ req' = [req EXCEPT ![r] =
                      Fail(q, "insertStats", StatsRowsRejected(db.videos, batch))]
                /\ UNCHANGED db
           ELSE /\ db' = [db EXCEPT !.stats = @ \o Returning(@, batch)]
                /\ LET q1 == [q EXCEPT !.results =
                                 Append(@, Returning(db.stats, batch))]
                   IN  req' = [req EXCEPT ![r] =
                          IF q.k < Len(q.chunks)
                          THEN [q1 EXCEPT !.k = q.k + 1,
                                          !.submittedStats =
                                              Append(@, q.chunks[q.k + 1])]
                          ELSE Respond(q1)]
    /\ UNCHANGED runs
    /\ UNCHANGED nonHandlerVars

WritePcs == {"insChannel", "insVideos", "insStats"}

StepOf(p) ==
    IF p = "insChannel" THEN "insertChannel"
    ELSE IF p = "insVideos" THEN "insertVideos" ELSE "insertStats"

(* a failed write that is caught, after which the handler goes on *)
WriteFailsSwallowed(r) ==
    /\ req[r].pc \in WritePcs
    /\ LET q == [req[r] EXCEPT !.failedStep = StepOf(req[r].pc),
                                !.error = TransientError]
       IN  req' = [req EXCEPT ![r] =
              IF q.pc = "insVideos" THEN AfterVideos(q) ELSE Respond(q)]
    /\ UNCHANGED <<db, runs>>
    /\ UNCHANGED nonHandlerVars

(* the backend rejects a write for a reason of its own: the awaited       *)
(* promise rejects and nothing in the handler catches it                  *)
WriteFails(r) ==
    /\ req[r].pc \in WritePcs
    /\ req' = [req EXCEPT ![r] = Fail(@, StepOf(@.pc), TransientError)]
    /\ UNCHANGED <<db, runs>>
    /\ UNCHANGED nonHandlerVars

(* the next request arrives once the previous one has ended *)
NewRun(r) ==
    /\ req[r].pc \in {"done", "failed"}
    /\ runs < MaxRuns
    /\ \E url \in UrlQueries : req' = [req EXCEPT ![r] = NewRequest(url)]
    /\ runs' = runs + 1
    /\ UNCHANGED db
    /\ UNCHANGED nonHandlerVars

gpvUnused ==
    /\ pageSizes = <<>>
    /\ endless = FALSE
    /\ gpvPc = "idle"
    /\ videos = <<>>
    /\ nextPageToken = Undefined
    /\ requests = <<>>
    /\ pagesOk = 0
    /\ pageFailure = NoFailure
    /\ gpvOutcome = "pending"
    /\ gpvRet = <<>>
    /\ gpvErr = NoError

(* ---- one request, either source version, playlists of up to 3 groups *)

AggregatePlaylists == {<<0>>, <<10>>, <<50, 10>>, <<50, 50, 10>>}

InitAggregate ==
    /\ variant \in SourceVersions
    /\ db = EmptyDb
    /\ \E url \in UrlQueries : req = [r \in {1} |-> NewRequest(url)]
    /\ runs = 1
    /\ gpvUnused
    /\ chunkIdle
    /\ resolverIdle

NextAggregate ==
    \/ HandleRequest(1)
    \/ UploadsResolved(1)
    \/ PlaylistResolved(1, AggregatePlaylists, {FALSE})
    \/ PlaylistFailed(1)
    \/ StatGroupResolved(1)
    \/ StatsJoined(1)
    \/ ChannelSelected(1)
    \/ ChannelInserted(1)
    \/ VideosSelected(1)
    \/ VideoBatchInserted(1)
    \/ StatsBatchInserted(1)

SpecAggregate == InitAggregate /\ [][NextAggregate]_vars

(* ---- requests one after the other on the same store, writes may fail *)

StorePlaylists == {<<0>>, <<1>>, <<26>>}

InitStore ==
    /\ variant = "part_002"
    /\ db = EmptyDb
    /\ \E url \in UrlQueries : req = [r \in {1} |-> NewRequest(url)]
    /\ runs = 1
    /\ gpvUnused
    /\ chunkIdle
    /\ resolverIdle

NextStore ==
    \/ HandleRequest(1)
    \/ UploadsResolved(1)
    \/ PlaylistResolved(1, StorePlaylists, BOOLEAN)
    \/ PlaylistFailed(1)
    \/ StatGroupResolved(1)
    \/ StatsJoined(1)
    \/ ChannelSelected(1)
    \/ ChannelInserted(1)
    \/ VideosSelected(1)
    \/ VideoBatchInserted(1)
    \/ StatsBatchInserted(1)
    \/ WriteFails(1)
    \/ NewRun(1)

SpecStore == InitStore /\ [][NextStore]_vars

(* ---- two overlapping requests for the same handle *)

RacePlaylists == {<<1>>, <<2>>}

RaceUrl == Str(<<"@", "f", "o", "o">>)

InitRace ==
    /\ variant = "part_002"
    /\ db = EmptyDb
    /\ req = [r \in {1, 2} |-> NewRequest(RaceUrl)]
    /\ runs = 2
    /\ gpvUnused
    /\ chunkIdle
    /\ resolverIdle

NextRace ==
    \E r \in {1, 2} :
        \/ HandleRequest(r)
        \/ UploadsResolved(r)
        \/ PlaylistResolved(r, RacePlaylists, {FALSE})
        \/ StatGroupResolved(r)
        \/ StatsJoined(r)
        \/ ChannelSelected(r)
        \/ ChannelInserted(r)
        \/ VideosSelected(r)
        \/ VideoBatchInserted(r)
        \/ StatsBatchInserted(r)

SpecRace == InitRace /\ [][NextRace]_vars

(* ---- one request with getPlaylistVideos run page by page, every call   *)
(* and write completing                                                    *)

(* playlists of up to MaxPages pages with 0 or 1 items each *)
LivePlaylists == UNION { [1..n -> {0, 1}] : n \in 1..MaxPages }

(* do { ... await fetch(apiUrl) of the call the handler is waiting for *)
PageRequested(r) ==
    /\ req[r].pc = "playlist"
    /\ GpvRequest

PageArrived(r) ==
    /\ req[r].pc = "playlist"
    /\ GpvPageOk

PageFailed(r) ==
    /\ req[r].pc = "playlist"
    /\ GpvPageFail

(* await getPlaylistVideos(apiKey, uploadsChannelId) settles *)
PlaylistReturned(r) ==
    /\ req[r].pc = "playlist"
    /\ gpvPc = "done"
    /\ req' = [req EXCEPT ![r] =
          IF gpvOutcome = "returned" THEN WithVideos(@, gpvRet)
          ELSE Fail(@, "playlist", gpvErr)]
    /\ UNCHANGED <<db, runs>>
    /\ UNCHANGED nonHandlerVars

(* getPlaylistVideos at its entry; an endless upstream serves empty pages *)
InitLive ==
    /\ variant \in SourceVersions
    /\ pageSizes \in LivePlaylists
    /\ endless \in BOOLEAN
    /\ endless => \A j \in 1..Len(pageSizes) : pageSizes[j] = 0
    /\ gpvPc = "loop"
    /\ videos = <<>>
    /\ nextPageToken = Undefined
    /\ requests = <<>>
    /\ pagesOk = 0
    /\ pageFailure = NoFailure
    /\ gpvOutcome = "pending"
    /\ gpvRet = <<>>
    /\ gpvErr = NoError
    /\ db = EmptyDb
    /\ \E url \in UrlQueries : req = [r \in {1} |-> NewRequest(url)]
    /\ runs = 1
    /\ chunkIdle
    /\ resolverIdle

NextLive ==
    \/ HandleRequest(1)
    \/ UploadsResolved(1)
    \/ PageRequested(1)
    \/ PageArrived(1)
    \/ PageFailed(1)
    \/ PlaylistReturned(1)
    \/ StatGroupResolved(1)
    \/ StatsJoined(1)
    \/ ChannelSelected(1)
    \/ ChannelInserted(1)
    \/ VideosSelected(1)
    \/ VideoBatchInserted(1)
    \/ StatsBatchInserted(1)
    \/ WriteFails(1)

(* every pending upstream call and write settles, and a settled await     *)
(* resumes the handler                                                     *)
SpecLive == InitLive /\ [][NextLive]_vars /\ WF_vars(NextLive)

(* ---- one request against a playlist that lists one of its videos twice *)

RepeatPlaylists == {<<1>>, <<2>>, <<21>>}

(* the videos of the playlist followed by its video v once more *)
RepeatedPlaylistVideos(sizes, v) ==
    Append(PlaylistVideos(sizes, FALSE), VideoOf(UpstreamItem(v)))

(* getPlaylistVideos returns the videos of such a playlist *)
PlaylistRepeated(r) ==
    /\ req[r].pc = "playlist"
    /\ \E sizes \in RepeatPlaylists :
          \E v \in {1, Offset(sizes, Len(sizes)) + sizes[Len(sizes)]} :
             req' = [req EXCEPT ![r] =
                       WithVideos(@, RepeatedPlaylistVideos(sizes, v))]
    /\ UNCHANGED <<db, runs>>
    /\ UNCHANGED nonHandlerVars

InitRepeat ==
    /\ variant = "part_002"
    /\ db = EmptyDb
    /\ \E url \in UrlQueries : req = [r \in {1} |-> NewRequest(url)]
    /\ runs = 1
    /\ gpvUnused
    /\ chunkIdle
    /\ resolverIdle

NextRepeat ==
    \/ HandleRequest(1)
    \/ UploadsResolved(1)
    \/ PlaylistRepeated(1)
    \/ StatGroupResolved(1)
    \/ StatsJoined(1)
    \/ ChannelSelected(1)
    \/ ChannelInserted(1)
    \/ VideosSelected(1)
    \/ VideoBatchInserted(1)
    \/ StatsBatchInserted(1)
    \/ NewRun(1)

SpecRepeat == InitRepeat /\ [][NextRepeat]_vars

----------------------------------------------------------------------------
(* Properties of autochunk, checked under SpecChunk *)

Oversized == { i \in 1..Len(items) : itemParametersOf(items[i]) > D1_MAX_PARAMETERS }

FirstOversized == CHOOSE i \in Oversized : \A j \in Oversized : i <= j

(* parameter cost of a batch: the sum of the costs of its items *)
RECURSIVE SumParameters(_)
SumParameters(s) ==
    IF s = <<>> THEN 0 ELSE itemParametersOf(Head(s)) + SumParameters(Tail(s))

(* the batches of a sequence of batches, one after the other *)
RECURSIVE Concat(_)
Concat(batches) ==
    IF batches = <<>> THEN <<>> ELSE Head(batches) \o Concat(Tail(batches))

(* C1: with otherParametersCount <= 100 and every item cost <= 100, every *)
(* batch handed to cb has (sum of item costs) + otherParametersCount      *)
(* <= 100.  The code violates it: a closed batch is restarted with the    *)
(* item that did not fit without checking that it fits next to the        *)
(* reserved parameters.                                                   *)
C1_BatchWithinCeiling ==
    (otherParametersCount <= D1_MAX_PARAMETERS /\ Oversized = {})
        => \A j \in 1..Len(cbCalls) :
              SumParameters(cbCalls[j]) + otherParametersCount
                  <= D1_MAX_PARAMETERS

(* C2: for a non-empty accepted input and a cb returning one row per item *)
(* in batch order, the returned sequence has the input's length, its i-th *)
(* element is the row of the i-th item, and the batches executed, joined  *)
(* in execution order, are the input.                                     *)
C2_OrderPreserved ==
    (outcome = "returned" /\ items # <<>>)
        => /\ Len(ret) = Len(items)
           /\ \A i \in 1..Len(items) : ret[i] = RowOf(items[i])
           /\ Concat(cbCalls) = items
           /\ Concat(written) = items

C2_Witness ==
    /\ outcome = "returned"
    /\ Len(items) = 3
    /\ Len(cbCalls) >= 2
    /\ Len(ret) = 3

(* C3: no batch handed to cb is empty, for every otherParametersCount in  *)
(* 0..100.  The code violates it: when the very first item does not fit   *)
(* next to the reserved parameters the still empty batch is closed.       *)
C3_NoEmptyBatch ==
    otherParametersCount <= D1_MAX_PARAMETERS
        => \A j \in 1..Len(cbCalls) : Len(cbCalls[j]) >= 1

(* C4 as stated: an empty input returns an empty result with no cb call.  *)
C4_EmptyInputReturnsEmpty ==
    (items = <<>> /\ pc = "done")
        => /\ outcome = "returned"
           /\ ret = <<>>
           /\ cbCalls = <<>>

(* C4 amended: an empty input never reaches cb, and with                  *)
(* otherParametersCount <= 100 the call returns an empty result.          *)
C4_EmptyInputAccepted ==
    items = <<>>
        => /\ cbCalls = <<>>
           /\ (pc = "done" /\ otherParametersCount <= D1_MAX_PARAMETERS)
                 => (outcome = "returned" /\ ret = <<>>)

C4_Witness ==
    /\ items = <<>>
    /\ otherParametersCount <= D1_MAX_PARAMETERS
    /\ outcome = "returned"
    /\ ret = <<>>

(* C5 as stated: an oversized item anywhere makes autochunk fail with the *)
(* item-too-large error naming that cost, before any cb call.             *)
C5_OversizedFails ==
    (Oversized # {} /\ pc = "done")
        => /\ outcome = "threw"
           /\ \E i \in Oversized :
                 err = ItemTooLargeError(itemParametersOf(items[i]))
           /\ cbCalls = <<>>

(* C5 amended: with otherParametersCount <= 100, an oversized item        *)
(* anywhere makes autochunk fail with the item-too-large error naming the *)
(* cost of the first oversized item; cb is never called and nothing is    *)
(* written, whatever batches the preceding items formed.                  *)
C5_OversizedFailsAfterPrecheck ==
    (Oversized # {} /\ otherParametersCount <= D1_MAX_PARAMETERS)
        => /\ cbCalls = <<>>
           /\ written = <<>>
           /\ pc \in {"start", "plan", "done"}
           /\ idx <= FirstOversized
           /\ pc = "done"
                 => /\ outcome = "threw"
                    /\ err = ItemTooLargeError(
                                itemParametersOf(items[FirstOversized]))

C5_Witness ==
    /\ Oversized # {}
    /\ FirstOversized = 3
    /\ otherParametersCount <= D1_MAX_PARAMETERS
    /\ chunks # <<>>
    /\ chunk # <<>>
    /\ outcome = "threw"

(* C6: with otherParametersCount > 100 autochunk fails with the precheck  *)
(* error before consuming any item and without calling cb, whatever the   *)
(* items; and a failed call carries the precheck error only then (every   *)
(* item-too-large error and every cb rejection differs from it).          *)
C6_PrecheckFails ==
    /\ otherParametersCount > D1_MAX_PARAMETERS
          => /\ idx = 0
             /\ cbCalls = <<>>
             /\ pc \in {"start", "done"}
             /\ pc = "done" => (outcome = "threw" /\ err = PrecheckError)
    /\ (outcome = "threw" /\ otherParametersCount <= D1_MAX_PARAMETERS)
          => err # PrecheckError

C6_Witness ==
    /\ otherParametersCount > D1_MAX_PARAMETERS
    /\ Oversized # {}
    /\ outcome = "threw"
    /\ err = PrecheckError

(* C7: when cb fails on batch k, autochunk fails with that error, batches *)
(* 1..k-1 stay written, batches k+1.. are never submitted and no result   *)
(* is returned.                                                           *)
C7_WriteFailurePropagates ==
    cbFailure # NoCbFailure
        => /\ pc = "done"
           /\ outcome = "threw"
           /\ err = cbFailure.error
           /\ ret = <<>>
           /\ written = SubSeq(chunks, 1, cbFailure.batch - 1)
           /\ cbCalls = SubSeq(chunks, 1, cbFailure.batch)

C7_Witness ==
    /\ cbFailure.batch = 2
    /\ Len(chunks) = 3
    /\ Len(written) = 1
    /\ outcome = "threw"

(* C8: at most one cb invocation is in flight; batch k is submitted only  *)
(* when batches 1..k-1 are committed, and autochunk returns only when     *)
(* every batch is committed.                                              *)
C8_SequentialWrites ==
    /\ Len(inflight) <= 1
    /\ inflight # <<>>
          => /\ inflight[1] = chunks[Len(cbCalls)]
             /\ written = SubSeq(chunks, 1, Len(cbCalls) - 1)
    /\ Len(written) <= Len(cbCalls)
    /\ outcome = "returned" => (inflight = <<>> /\ written = chunks)

C8_Witness ==
    /\ Len(inflight) = 1
    /\ Len(written) = 2
    /\ Len(chunks) = 3

(* the batches closed so far followed by the batch being filled *)
BatchesSoFar == IF pc = "plan" THEN Append(chunks, chunk) ELSE chunks

(* C20: batching is greedy and maximal: for consecutive batches B_k and   *)
(* B_k+1, cost(B_k) + cost(first item of B_k+1) + otherParametersCount    *)
(* exceeds 100, B_k+1 starts with the item that did not fit, and the      *)
(* running cost the loop keeps is the cost of the batch being filled.     *)
C20_GreedyMaximal ==
    /\ pc = "plan" => chunkParameters = SumParameters(chunk)
    /\ \A k \in 1..(Len(BatchesSoFar) - 1) :
          /\ BatchesSoFar[k + 1] # <<>>
          /\ SumParameters(BatchesSoFar[k])
                + itemParametersOf(BatchesSoFar[k + 1][1])
                + otherParametersCount > D1_MAX_PARAMETERS
          /\ BatchesSoFar[k] # <<>>
                => BatchesSoFar[k + 1][1].id
                      = BatchesSoFar[k][Len(BatchesSoFar[k])].id + 1

C20_Witness ==
    /\ pc = "exec"
    /\ Len(chunks) = 2
    /\ Len(chunks[1]) = 2
    /\ Len(chunks[2]) = 1
    /\ SumParameters(chunks[1]) = D1_MAX_PARAMETERS
    /\ otherParametersCount = 0

----------------------------------------------------------------------------
(* Properties of getPlaylistVideos, checked under SpecPlaylist *)

(* the records of pages 1..k of the playlist, in page order *)
RECURSIVE VideosOfPages(_, _)
VideosOfPages(sizes, k) ==
    IF k = 0 THEN <<>>
    ELSE VideosOfPages(sizes, k - 1)
            \o [m \in 1..sizes[k] |->
                  VideoOf(UpstreamItem(Offset(sizes, k) + m))]

RECURSIVE SumSizes(_, _)
SumSizes(sizes, k) == IF k = 0 THEN 0 ELSE sizes[k] + SumSizes(sizes, k - 1)

(* C9: for a playlist of n >= 1 chained pages whose requests all succeed, *)
(* getPlaylistVideos issues exactly n requests, the first without a token *)
(* and the j-th with the token the (j-1)-th page returned, and returns    *)
(* the items of all pages in page order.                                  *)
C9_AllPagesInOrder ==
    /\ \A j \in 1..Len(requests) :
          requests[j] = IF j = 1 THEN Undefined
                        ELSE Response(pageSizes, requests[j - 1]).nextPageToken
    /\ (gpvPc = "done" /\ pageFailure = NoFailure)
          => /\ gpvOutcome = "returned"
             /\ Len(requests) = Len(pageSizes)
             /\ \A j \in 2..Len(requests) : requests[j] = TokenOf(j)
             /\ Len(gpvRet) = SumSizes(pageSizes, Len(pageSizes))
             /\ gpvRet = VideosOfPages(pageSizes, Len(pageSizes))

C9_Witness ==
    /\ pageSizes = <<50, 50, 10>>
    /\ gpvOutcome = "returned"
    /\ pageFailure = NoFailure
    /\ Len(requests) = 3
    /\ Len(gpvRet) = 110

(* C10: when a page request fails after k pages were fetched, the         *)
(* function returns the items of those k pages and throws nothing.  The   *)
(* code violates it: the handler file's version lets the error escape,    *)
(* and the version of src/src/index.ts returns [] whatever was fetched.   *)
C10_PageFailureReturnsAccumulated ==
    pageFailure # NoFailure
        => /\ gpvOutcome = "returned"
           /\ gpvRet = VideosOfPages(pageSizes, pageFailure.after)

----------------------------------------------------------------------------
(* Properties of extractUsername, checked under SpecResolver *)

CustomUrlHead == <<"h", "t", "t", "p", "s", ":", "/", "/", "y", "o", "u", "t", "u", "b", "e", ".", "c", "o", "m", "/", "c", "/">>

(* C17: an input starting with '@' is returned unchanged; for a url       *)
(* https://youtube.com/c/<name> the result is <name> alone, without the   *)
(* c/ prefix; an input that neither starts with '@' nor matches the       *)
(* channel patterns gives null.  The code violates the second part: it    *)
(* returns capture group 2, which still carries the c/ (or user/) prefix. *)
C17_ResolverResult ==
    exPc = "done"
        => /\ StartsWith(exInput, <<"@">>) => exResult = Str(exInput)
           /\ (StartsWith(exInput, CustomUrlHead)
                  /\ MatchesName(Drop(exInput, Len(CustomUrlHead) - 2)))
                 => exResult = Str(Drop(exInput, Len(CustomUrlHead)))
           /\ (~StartsWith(exInput, <<"@">>) /\ ~MatchUrlRegex(exInput).found)
                 => exResult = Null

----------------------------------------------------------------------------
(* Properties of the GET / handler, checked under SpecAggregate *)

AllSettled(q) == \A g \in 1..Len(q.groups) : q.groups[g].settled

(* several groups, the fetch of exactly one failed, every other group got *)
(* statistics for all of its ids                                           *)
ExactlyOneGroupFailed(q) ==
    /\ Len(q.groups) >= 2
    /\ AllSettled(q)
    /\ \E f \in 1..Len(q.groups) :
          /\ q.groups[f].kind = "fail"
          /\ \A g \in 1..Len(q.groups) : g # f => q.groups[g].kind = "full"

IdsOfKind(q, kind) ==
    UNION {{q.groups[g].ids[j] : j \in 1..Len(q.groups[g].ids)} :
             g \in {h \in 1..Len(q.groups) : q.groups[h].kind = kind}}

CountsOf(entry) == {entry.viewCount, entry.likeCount, entry.commentCount}

(* C11: when exactly one of several statistics groups fails and the       *)
(* others are complete, the request still answers with the JSON document: *)
(* every video of the list in list order, totalVideos the list length,    *)
(* and the three counts "N/A" for exactly the videos of the failed group.  *)
C11_FailedGroupOnlyNA ==
    \A r \in DOMAIN req :
       LET q == req[r] IN
       ExactlyOneGroupFailed(q) =>
          /\ q.pc # "failed"
          /\ q.pc = "done" =>
                /\ q.response.kind = "json"
                /\ q.response.totalVideos = Len(q.videos)
                /\ Len(q.response.videos) = Len(q.videos)
                /\ \A i \in 1..Len(q.videos) :
                      LET entry == q.response.videos[i] IN
                      /\ entry.videoID = q.videos[i].videoId
                      /\ entry.title = q.videos[i].videoTitle
                      /\ IF entry.videoID \in IdsOfKind(q, "fail")
                         THEN CountsOf(entry) = {"N/A"}
                         ELSE "N/A" \notin CountsOf(entry)

(* the first of three groups failed and the request has answered *)
C11_Witness ==
    \E r \in DOMAIN req :
       /\ req[r].pc = "done"
       /\ variant = "part_002"
       /\ Len(req[r].groups) = 3
       /\ req[r].groups[1].kind = "fail"
       /\ ExactlyOneGroupFailed(req[r])
       /\ req[r].response.videos[1].viewCount = "N/A"
       /\ req[r].response.videos[51].viewCount = "51"

----------------------------------------------------------------------------
(* Properties of the persisting handler, checked under SpecStore *)

(* batchInsertVideos has returned its map *)
HasVideoIdMap(q) ==
    q.pc \in {"insStats", "done"} /\ q.response.kind # "text"
       /\ Len(q.videos) > 0

RowsOf(batches) == flat(batches)

(* C12: the videos table never holds two rows with one external video id; *)
(* no batch handed to the insert contains a video the lookup found        *)
(* stored; a stored row never changes; and the map batchInsertVideos      *)
(* returns gives every stored external id the id of its existing row.     *)
C12_VideoStoredOnce ==
    /\ [](/\ \A i, j \in 1..Len(db.videos) :
               db.videos[i].videoId = db.videos[j].videoId => i = j
          /\ \A r \in DOMAIN req :
               LET q == req[r] IN
               /\ \A i \in 1..Len(RowsOf(q.submittedVideos)) :
                     RowsOf(q.submittedVideos)[i].videoId
                        \notin DOMAIN q.existingVideoMap
               /\ HasVideoIdMap(q) =>
                     \A key \in DOMAIN q.existingVideoMap :
                        /\ q.videoIdMap[key] = q.existingVideoMap[key]
                        /\ db.videos[q.videoIdMap[key]].videoId = key
                        /\ db.videos[q.videoIdMap[key]].id = q.videoIdMap[key])
    /\ [][/\ Len(db'.videos) >= Len(db.videos)
          /\ \A i \in 1..Len(db.videos) : db'.videos[i] = db.videos[i]]_vars

(* a second run found video 1 stored, with another title upstream, and    *)
(* has answered; the row still has the first title                        *)
C12_Witness ==
    \E r \in DOMAIN req :
       /\ req[r].pc = "done"
       /\ req[r].response.kind = "json"
       /\ runs = 2
       /\ Len(req[r].videos) = 26
       /\ req[r].videos[1].videoTitle = "new title1"
       /\ "vid1" \in DOMAIN req[r].existingVideoMap
       /\ req[r].submittedVideos # <<>>
       /\ db.videos[req[r].videoIdMap["vid1"]].title = "title1"
       /\ Len(db.videos) = 26

MapRange(map) == {map[key] : key \in DOMAIN map}

(* C13: every row of video_statistics refers to the id of a row of videos; *)
(* once a request has handed a statistics batch to the insert, every video *)
(* of its list is stored under the id its map gives, and every statistics  *)
(* row handed over carries an id of that map, never the undefined id.      *)
C13_SnapshotsReferToVideos ==
    /\ \A s \in 1..Len(db.stats) :
          \E v \in 1..Len(db.videos) : db.videos[v].id = db.stats[s].videoId
    /\ \A r \in DOMAIN req :
          LET q == req[r] IN
          q.submittedStats # <<>> =>
             /\ q.pc \notin {"selChannel", "insChannel", "selVideos", "insVideos"}
             /\ \A i \in 1..Len(q.videos) :
                   /\ q.videos[i].videoId \in DOMAIN q.videoIdMap
                   /\ q.videoIdMap[q.videos[i].videoId] \in 1..Len(db.videos)
                   /\ db.videos[q.videoIdMap[q.videos[i].videoId]].videoId
                         = q.videos[i].videoId
             /\ \A i \in 1..Len(RowsOf(q.submittedVideos)) :
                   \E v \in 1..Len(db.videos) :
                      db.videos[v].videoId = RowsOf(q.submittedVideos)[i].videoId
             /\ \A i \in 1..Len(RowsOf(q.submittedStats)) :
                   /\ RowsOf(q.submittedStats)[i].videoId # UndefinedId
                   /\ RowsOf(q.submittedStats)[i].videoId \in MapRange(q.videoIdMap)

(* a second run stored snapshots for videos inserted by the first run *)
C13_Witness ==
    \E r \in DOMAIN req :
       /\ req[r].pc = "done"
       /\ runs = 2
       /\ Len(db.videos) = 26
       /\ Len(db.stats) = 52
       /\ req[r].submittedVideos = <<>>
       /\ Len(req[r].submittedStats) = 2

(* C14: a run that completes persistence has appended exactly one row of  *)
(* video_statistics for every video of its fetched list, in list order,   *)
(* with a count stored as 0 where the upstream gave none.                 *)
C14_SnapshotPerVideo ==
    \A r \in DOMAIN req :
       LET q == req[r] IN
       (q.pc = "done" /\ q.response.kind = "json") =>
          /\ Len(db.stats) = q.startLens.stats + Len(q.videos)
          /\ \A i \in 1..Len(q.videos) :
                LET row == db.stats[q.startLens.stats + i]
                    stat == FindStat(q.stats, q.videos[i].videoId)
                IN  /\ row.videoId = q.videoIdMap[q.videos[i].videoId]
                    /\ row.viewCount = OrZero(stat.viewCount)
                    /\ row.likeCount = OrZero(stat.likeCount)
                    /\ row.commentCount = OrZero(stat.commentCount)

----------------------------------------------------------------------------
(* Properties of the short-circuit paths, checked under SpecAggregate *)

UrlMissing(q) == q.url.isNull \/ q.url.str = <<>>

InputUnresolvable(q) ==
    /\ ~UrlMissing(q)
    /\ LET username == extractUsername(q.url.str)
       IN  username.isNull \/ username.str = <<>>

NoUploadsPlaylist(q) ==
    /\ ~UrlMissing(q) /\ ~InputUnresolvable(q)
    /\ q.pc \notin {"start", "uploads"}
    /\ ~Truthy(q.uploadsChannelId)

ZeroVideos(q) == q.fetched /\ Len(q.videos) = 0

(* the request ended with this sentence after exactly these upstream      *)
(* calls, and has written nothing                                          *)
EndedWith(q, sentence, calls) ==
    /\ q.pc = "done"
    /\ q.response = TextResponse(sentence)
    /\ q.calls = calls
    /\ q.submittedVideos = <<>> /\ q.submittedStats = <<>>
    /\ q.channel = NoChannel
    /\ Len(db.channels) = q.startLens.channels
    /\ Len(db.videos) = q.startLens.videos
    /\ Len(db.stats) = q.startLens.stats

(* C15: the handler checks, in this order, missing url, unresolvable      *)
(* input, no uploads playlist, zero videos; the first that applies ends   *)
(* the request with its own sentence, with no upstream call after it and  *)
(* no row written; a plain-text answer is only given on these four paths.  *)
C15_ShortCircuitOrder ==
    \A r \in DOMAIN req :
       LET q == req[r] IN
       /\ (q.pc # "start" /\ UrlMissing(q)) =>
             EndedWith(q, Sentences.missing, <<>>)
       /\ (q.pc # "start" /\ InputUnresolvable(q)) =>
             EndedWith(q, Sentences.invalid, <<>>)
       /\ NoUploadsPlaylist(q) =>
             EndedWith(q, Sentences.noUploads, <<"channels">>)
       /\ ZeroVideos(q) =>
             EndedWith(q, Sentences.noVideos, <<"channels", "playlistItems">>)
       /\ q.response.kind = "text" =>
             \/ UrlMissing(q) \/ InputUnresolvable(q)
             \/ NoUploadsPlaylist(q) \/ ZeroVideos(q)

(* the persisting handler got an empty playlist and answered *)
C15_Witness ==
    \E r \in DOMAIN req :
       /\ variant = "part_002"
       /\ ZeroVideos(req[r])
       /\ req[r].response = TextResponse(Sentences.noVideos)
       /\ req[r].calls = <<"channels", "playlistItems">>
       /\ db = EmptyDb

----------------------------------------------------------------------------
(* Properties of failing writes, checked under SpecStore *)

PersistenceSteps == {"insertChannel", "insertVideos", "insertStats", "autochunk"}

(* the rows are in the table, under their ids, as they were returned *)
Stored(table, rows) ==
    \A i \in 1..Len(rows) :
       rows[i].id \in 1..Len(table) /\ table[rows[i].id] = rows[i]

(* C16: when a channel, video-batch or statistics-batch insert fails, or  *)
(* autochunk throws, the request ends with the error: no JSON and no      *)
(* sentence is returned, no later persistence step of the request runs (a *)
(* failed video batch leaves the statistics untouched), and the rows the  *)
(* request wrote before stay stored.                                       *)
C16_WriteFailureAborts ==
    \A r \in DOMAIN req :
       LET q == req[r] IN
       q.failedStep \in PersistenceSteps =>
          /\ q.pc = "failed"
          /\ q.response = NoResponse
          /\ q.error # NoError
          /\ q.failedStep = "insertChannel" =>
                /\ q.submittedVideos = <<>> /\ q.submittedStats = <<>>
                /\ Len(db.channels) = q.startLens.channels
                /\ Len(db.videos) = q.startLens.videos
          /\ q.failedStep \in {"insertChannel", "insertVideos"} =>
                /\ q.submittedStats = <<>>
                /\ Len(db.stats) = q.startLens.stats
          /\ q.failedStep \in {"insertVideos", "insertStats"} =>
                /\ Stored(db.channels, <<q.channel>>)
                /\ Len(q.chunks) >= q.k
          /\ q.failedStep = "insertVideos" =>
                /\ Stored(db.videos, RowsOf(q.results))
                /\ Len(db.videos) = q.startLens.videos + Len(RowsOf(q.results))
                /\ Len(q.submittedVideos) = q.k
          /\ q.failedStep = "insertStats" =>
                /\ Stored(db.stats, RowsOf(q.results))
                /\ Len(db.stats) = q.startLens.stats + Len(RowsOf(q.results))
                /\ Len(q.submittedStats) = q.k
                /\ \A i \in 1..Len(q.videos) :
                      db.videos[q.videoIdMap[q.videos[i].videoId]].videoId
                         = q.videos[i].videoId

(* the second of two video batches failed: the 20 rows of the first batch *)
(* are stored, no statistics were written                                  *)
C16_Witness ==
    \E r \in DOMAIN req :
       /\ req[r].pc = "failed"
       /\ req[r].failedStep = "insertVideos"
       /\ req[r].k = 2
       /\ Len(db.videos) = req[r].startLens.videos + 20
       /\ Len(db.channels) = 1
       /\ Len(db.stats) = 0
       /\ req[r].submittedStats = <<>>

----------------------------------------------------------------------------
(* Properties of the concurrent statistics fetches, under SpecAggregate *)

GroupIds(q) == flat([g \in 1..Len(q.groups) |-> q.groups[g].ids])

CountCalls(calls, name) ==
    Cardinality({i \in 1..Len(calls) : calls[i] = name})

(* the record the upstream returned for this id, in the answer to the     *)
(* group the id was asked in                                               *)
OwnStat(q, videoId) ==
    LET g == CHOOSE h \in 1..Len(q.groups) :
                 \E j \in 1..Len(q.groups[h].ids) : q.groups[h].ids[j] = videoId
    IN  FindStat(q.groups[g].result, videoId)

(* C18: every group fetch is started before any is awaited; the groups    *)
(* are consecutive slices of at most 50 ids that together are the id list; *)
(* and in whatever order the fetches settle, each video of the response   *)
(* carries the counts returned for its own id.                            *)
C18_JoinIndependentOfCompletionOrder ==
    \A r \in DOMAIN req :
       LET q == req[r] IN
       /\ q.pc = "stats" =>
             /\ Len(q.groups) = (Len(q.videos) + 49) \div 50
             /\ CountCalls(q.calls, "videos") = Len(q.groups)
             /\ GroupIds(q) = VideoIds(q.videos)
             /\ \A g \in 1..Len(q.groups) :
                   Len(q.groups[g].ids) \in 1..50
       /\ (q.pc = "done" /\ q.response.kind = "json") =>
             /\ Len(q.order) = Len(q.groups)
             /\ GroupIds(q) = VideoIds(q.videos)
             /\ Len(q.response.videos) = Len(q.videos)
             /\ \A i \in 1..Len(q.videos) :
                   LET entry == q.response.videos[i]
                       stat == OwnStat(q, q.videos[i].videoId)
                   IN  /\ entry.videoID = q.videos[i].videoId
                       /\ entry.viewCount = OrNA(stat.viewCount)
                       /\ entry.likeCount = OrNA(stat.likeCount)
                       /\ entry.commentCount = OrNA(stat.commentCount)

(* three groups settled last-first, the second without an answer, and the *)
(* response has the counts of each video's own id                          *)
C18_Witness ==
    \E r \in DOMAIN req :
       /\ req[r].pc = "done"
       /\ req[r].response.kind = "json"
       /\ req[r].order = <<3, 2, 1>>
       /\ req[r].groups[2].kind = "fail"
       /\ req[r].groups[1].kind = "full"
       /\ req[r].groups[3].kind = "full"
       /\ req[r].response.videos[1].viewCount = "1"
       /\ req[r].response.videos[101].commentCount = "202"

----------------------------------------------------------------------------
(* Properties of overlapping requests, checked under SpecRace *)

(* the request found the handle absent and has not inserted it yet, while *)
(* the store holds it by now                                               *)
LostChannelRace(q) ==
    q.pc = "insChannel" /\ ChannelNameTaken(db.channels, q.username.str)

(* C19: with two overlapping requests for the same handle, the store      *)
(* holds at most one channel row per handle and at most one video row per *)
(* external id in every state; a request ends in failure only by the      *)
(* backend rejecting its insert of a row the other request stored first,  *)
(* and a request whose lookup found the handle absent fails on its insert *)
(* once the other has stored the handle, it never reuses that row.        *)
C19_RaceKeepsRowsUnique ==
    /\ [](/\ \A i, j \in 1..Len(db.channels) :
               db.channels[i].channelName = db.channels[j].channelName => i = j
          /\ \A i, j \in 1..Len(db.videos) :
               db.videos[i].videoId = db.videos[j].videoId => i = j
          /\ \A r \in DOMAIN req :
               LET q == req[r] IN
               q.pc = "failed" =>
                  /\ q.error = UniqueError
                  /\ q.response = NoResponse
                  /\ \/ /\ q.failedStep = "insertChannel"
                        /\ q.channel = NoChannel
                        /\ ChannelNameTaken(db.channels, q.username.str)
                     \/ /\ q.failedStep = "insertVideos"
                        /\ \E i \in 1..Len(RowsOf(q.submittedVideos)) :
                             \E v \in 1..Len(db.videos) :
                                /\ db.videos[v].videoId
                                      = RowsOf(q.submittedVideos)[i].videoId
                                /\ v > q.startLens.videos
                                /\ db.videos[v].videoId
                                      \notin DOMAIN q.existingVideoMap)
    /\ [][\A r \in DOMAIN req :
            (LostChannelRace(req[r]) /\ req'[r] # req[r]) =>
               /\ req'[r].pc = "failed"
               /\ req'[r].failedStep = "insertChannel"
               /\ db' = db]_vars

(* both requests found the handle absent; the second one's insert was     *)
(* rejected, the first one went on and stored its video                    *)
C19_Witness ==
    /\ req[1].pc = "done"
    /\ req[1].response.kind = "json"
    /\ req[2].pc = "failed"
    /\ req[2].failedStep = "insertChannel"
    /\ req[2].error = UniqueError
    /\ Len(db.channels) = 1
    /\ Len(db.videos) >= 1

----------------------------------------------------------------------------
(* Properties of termination, checked under SpecLive *)

Ended(q) == q.pc \in {"done", "failed"}

(* C21: against a playlist of finitely many pages, with every call and    *)
(* write settling, the request eventually ends with a response or an      *)
(* error; getPlaylistVideos leaves its loop exactly on a page without a   *)
(* continuation token; and against an upstream that puts a token on every *)
(* page, as long as no page request fails, getPlaylistVideos never        *)
(* returns and the request stays at its await.                            *)
C21_EndsUnlessUpstreamEndless ==
    /\ (~endless) => <>Ended(req[1])
    /\ [](/\ Ended(req[1]) =>
               \/ req[1].response # NoResponse
               \/ req[1].error # NoError
          /\ (gpvPc = "loop" /\ pagesOk > 0) => Truthy(nextPageToken)
          /\ (gpvOutcome = "returned" /\ pageFailure = NoFailure) =>
               /\ ~Truthy(nextPageToken)
               /\ pagesOk = Len(pageSizes)
               /\ Len(requests) = Len(pageSizes)
          /\ (endless /\ pageFailure = NoFailure) =>
               /\ gpvPc # "done"
               /\ ~req[1].fetched
               /\ (Ended(req[1]) => req[1].calls \in {<<>>, <<"channels">>}))
    /\ [][(endless /\ req[1].pc = "playlist" /\ req'[1].pc # "playlist")
             => pageFailure' # NoFailure]_vars

(* the persisting handler fetched three pages, stored what it got and     *)
(* answered                                                                *)
C21_Witness ==
    /\ variant = "part_002"
    /\ ~endless
    /\ pagesOk = 3
    /\ Len(requests) = 3
    /\ req[1].pc = "done"
    /\ req[1].response.kind = "json"
    /\ Len(db.stats) >= 1

----------------------------------------------------------------------------
(* Properties of repeated video ids, checked under SpecRepeat *)

(* C22: within one run the rows batchInsertVideos hands to the insert     *)
(* carry pairwise different external video ids, and the run does not fail *)
(* on the unique constraint of videos.video_id.                           *)
C22_NoRepeatedIdSubmitted ==
    \A r \in DOMAIN req :
       LET q == req[r]
           rows == RowsOf(q.submittedVideos)
       IN  /\ \A i, j \in 1..Len(rows) :
                 rows[i].videoId = rows[j].videoId => i = j
           /\ ~(q.pc = "failed" /\ q.failedStep = "insertVideos"
                   /\ q.error = UniqueError)

====
